---------------------------- MODULE Spec2Model ----------------------------
(***************************************************************************)
(* Instrument drivers of pymeasure (Agilent34970A, Keithley2182, HP3458A,  *)
(* HP6632B) as state machines over an adapter.                             *)
(*                                                                         *)
(* Text that travels over the adapter (commands, replies) is a sequence of *)
(* one-character strings, so that formatting, slicing, splitting and       *)
(* parsing are computed as Python computes them.                           *)
(*                                                                         *)
(* Every driver call is synchronous and single-threaded: a call is one     *)
(* action, except check_errors, whose polling loop is one action per       *)
(* iteration (pc says that the loop is running and bars other calls).      *)
(***************************************************************************)
EXTENDS Integers, Sequences, FiniteSets, TLC

VARIABLES
    drv,         \* the driver class of the object under test
    device,      \* the instrument model at the other end of the adapter
    pc,          \* "idle", or "check_errors" while its loop is running
    i,           \* check_errors: the loop variable of `for i in range(12)`
    error_dict,  \* check_errors: the local error_dict
    log,         \* what the current (or last) call sent through the adapter
    last,        \* the current (or last) call: its name and arguments
    ret,         \* how the last call ended: a return value or an exception
    popped,      \* history: non-zero errors the instrument handed out in this call
    seen,        \* history: the <<code, message>> pairs handed out in this call
    zeroRecv,    \* history: a reply with code 0 was received in this call
    inst,        \* the simulated instrument: keyword -> argument last written
    setTo,       \* history: property -> the enum member its setter was last given
    heap,        \* Python list objects of the caller: object id -> contents
    cfg,         \* the Configuration object the caller holds (or NoObject)
    cfg0         \* history: what cfg reported right after its construction

vars == <<drv, device, pc, i, error_dict, log, last, ret, popped, seen,
          zeroRecv, inst, setTo, heap, cfg, cfg0>>

instVars == <<inst, setTo>>

errVars == <<i, error_dict, popped, seen, zeroRecv>>
objVars == <<heap, cfg, cfg0>>

---------------------------------------------------------------------------
(* Python text operations *)

Digits == {"0", "1", "2", "3", "4", "5", "6", "7", "8", "9"}

Whitespace == {" ", "\n", "\r", "\t"}

LowerCase ==
    {"a", "b", "c", "d", "e", "f", "g", "h", "i", "j", "k", "l", "m",
     "n", "o", "p", "q", "r", "s", "t", "u", "v", "w", "x", "y", "z"}

DigitVal(c) ==
    CASE c = "0" -> 0 [] c = "1" -> 1 [] c = "2" -> 2 [] c = "3" -> 3
      [] c = "4" -> 4 [] c = "5" -> 5 [] c = "6" -> 6 [] c = "7" -> 7
      [] c = "8" -> 8 [] c = "9" -> 9

DigitChar(d) ==
    CASE d = 0 -> "0" [] d = 1 -> "1" [] d = 2 -> "2" [] d = 3 -> "3"
      [] d = 4 -> "4" [] d = 5 -> "5" [] d = 6 -> "6" [] d = 7 -> "7"
      [] d = 8 -> "8" [] d = 9 -> "9"

Min(a, b) == IF a < b THEN a ELSE b

\* str(n) for a natural number
RECURSIVE StrNat(_)
StrNat(n) ==
    IF n < 10 THEN <<DigitChar(n)>>
    ELSE Append(StrNat(n \div 10), DigitChar(n % 10))

\* str(n) for an integer
Str(n) == IF n < 0 THEN <<"-">> \o StrNat(-n) ELSE StrNat(n)

\* s[a:b] for 0 <= a, 0 <= b
Slice(s, a, b) == SubSeq(s, a + 1, Min(b, Len(s)))

\* s[:-1]
DropLast(s) == SubSeq(s, 1, Len(s) - 1)

\* s.strip()
RECURSIVE Strip(_)
Strip(s) ==
    IF s = <<>> THEN s
    ELSE IF Head(s) \in Whitespace THEN Strip(Tail(s))
    ELSE IF s[Len(s)] \in Whitespace THEN Strip(DropLast(s))
    ELSE s

\* s.split(sep) for a one-character separator: never an empty list
RECURSIVE SplitFrom(_, _, _)
SplitFrom(s, sep, cur) ==
    IF s = <<>> THEN <<cur>>
    ELSE IF Head(s) = sep THEN <<cur>> \o SplitFrom(Tail(s), sep, <<>>)
    ELSE SplitFrom(Tail(s), sep, Append(cur, Head(s)))

Split(s, sep) == SplitFrom(s, sep, <<>>)

\* sep.join(parts)
RECURSIVE Join(_, _)
Join(sep, parts) ==
    IF parts = <<>> THEN <<>>
    ELSE IF Len(parts) = 1 THEN parts[1]
    ELSE parts[1] \o sep \o Join(sep, Tail(parts))

RECURSIVE DigitsVal(_, _)
DigitsVal(s, acc) ==
    IF s = <<>> THEN acc ELSE DigitsVal(Tail(s), 10 * acc + DigitVal(Head(s)))

AllDigits(s) == s # <<>> /\ \A k \in 1..Len(s) : s[k] \in Digits

Signed(s) == s # <<>> /\ Head(s) \in {"-", "+"}

\* int(s): surrounding whitespace and one sign are accepted; anything else
\* but a non-empty run of digits is a ValueError (ok = FALSE)
IntParse(s) ==
    LET t == Strip(s)
        body == IF Signed(t) THEN Tail(t) ELSE t
    IN  IF AllDigits(body)
        THEN [ok |-> TRUE,
              val |-> IF Signed(t) /\ Head(t) = "-"
                      THEN -DigitsVal(body, 0) ELSE DigitsVal(body, 0)]
        ELSE [ok |-> FALSE, val |-> 0]

---------------------------------------------------------------------------
(* Python values and outcomes *)

NoObject == [type |-> "NoneType"]

NoCall == [op |-> "none"]

Pending == [kind |-> "pending"]

Return(v) == [kind |-> "return", val |-> v]

Raise(e) == [kind |-> "raise", exc |-> e]

\* a str
PyStr(text) == [type |-> "str", text |-> text]

\* an int
PyInt(n) == [type |-> "int", val |-> n]

\* a member of an enum class
PyEnum(cls, name) == [type |-> "enum", cls |-> cls, name |-> name]

EmptyDict == [k \in {} |-> <<>>]

\* the values of an enum's members (an enum is member name -> value)
EnumValues(enum) == {enum[m] : m \in DOMAIN enum}

\* cls(value): the member with that value, or a ValueError
EnumLookup(cls, enum, value) ==
    IF \E m \in DOMAIN enum : enum[m] = value
    THEN Return(PyEnum(cls, CHOOSE m \in DOMAIN enum : enum[m] = value))
    ELSE Raise("ValueError")

\* d[k] = v
DictSet(d, k, v) == [x \in DOMAIN d \cup {k} |-> IF x = k THEN v ELSE d[x]]

---------------------------------------------------------------------------
(* The adapter: what a call sends *)

Written(text) == [kind |-> "write", text |-> text, size |-> 0, enc |-> ""]

Asked(text) == [kind |-> "ask", text |-> text, size |-> 0, enc |-> ""]

ReadRaw(size, enc) == [kind |-> "read", text |-> <<>>, size |-> size, enc |-> enc]

---------------------------------------------------------------------------
(* check_errors (Agilent34970A and Keithley2182 hold the same code) *)

T_SystErr ==
    <<"S", "Y", "S", "T", "e", "m", ":", "E", "R", "R", "o", "r", "?">>

T_NoError ==
    <<"N", "o", " ", "e", "r", "r", "o", "r">>

T_UndefinedHeader ==
    <<"U", "n", "d", "e", "f", "i", "n", "e", "d", " ", "h", "e", "a", "d", "e", "r">>

T_OutOfRange ==
    <<"D", "a", "t", "a", " ", "o", "u", "t", " ", "o", "f", " ", "r", "a", "n", "g", "e",
      ",", " ", "c", "l", "i", "p", "p", "e", "d">>

T_Truncated ==
    <<"-", "1", "1", "3">>

\* the range(12) of the polling loop
ErrorPollCap == 12

\* the error codes and messages the simulated instrument hands out
ErrorCodes == {-113, 222}

ErrorMessages == {T_UndefinedHeader, T_OutOfRange}

\* the instrument's reply to SYSTem:ERRor?: <code>,"<message>"
ErrorReply(code, msg) == Str(code) \o <<",", "\"">> \o msg \o <<"\"">>

ErrorReplies ==
    {ErrorReply(0, T_NoError)}
        \cup {ErrorReply(c, m) : c \in ErrorCodes, m \in ErrorMessages}
        \cup {T_Truncated}

\* the error-queue depth the docstring gives per instrument model
QueueDepth(d) == IF d = "34970A" THEN 10 ELSE 12

ErrorDrivers == {"Agilent34970A", "Keithley2182"}

DevicesOf(d) ==
    CASE d = "Agilent34970A" -> {"34970A", "34972"}
      [] d = "Keithley2182" -> {"2182"}
      [] d = "HP3458A" -> {"3458A"}
      [] d = "HP6632B" -> {"6632B"}

\* one iteration's parse: error_code, error_message
ErrorCodeOf(result_string) == IntParse(Split(result_string, ",")[1])

ErrorMessageParts(result_string) == Split(result_string, "\"")

\* the call: error_dict = dict(), and the loop is entered
CheckErrorsCall ==
    /\ pc = "idle"
    /\ drv \in ErrorDrivers
    /\ pc' = "check_errors"
    /\ i' = 0
    /\ error_dict' = EmptyDict
    /\ log' = <<>>
    /\ last' = [op |-> "check_errors"]
    /\ ret' = Pending
    /\ popped' = 0
    /\ seen' = {}
    /\ zeroRecv' = FALSE
    /\ UNCHANGED <<drv, device, instVars, objVars>>

\* the test with the zero code never recognised
IsNoError_Never(error_code) == FALSE

\* `if error_code == 0`
IsNoError(error_code) == error_code = 0

\* one iteration of `for i in range(12)`, and the return when it is the last.
\* popped, seen and zeroRecv record what the instrument handed out, whatever
\* the driver then does with it.
CheckErrorsPoll ==
    /\ pc = "check_errors"
    /\ i < ErrorPollCap
    /\ \E result_string \in ErrorReplies :
         LET error_code == ErrorCodeOf(result_string)
             parts == ErrorMessageParts(result_string)
             parsed == error_code.ok /\ Len(parts) >= 2
             isError == parsed /\ error_code.val # 0
         IN  /\ log' = Append(log, Asked(T_SystErr))
             /\ popped' = IF isError THEN popped + 1 ELSE popped
             /\ seen' = IF isError THEN seen \cup {<<error_code.val, parts[2]>>} ELSE seen
             /\ zeroRecv' = (zeroRecv \/ (parsed /\ error_code.val = 0))
             /\ IF ~error_code.ok
                THEN /\ ret' = Raise("ValueError")
                     /\ pc' = "idle"
                     /\ UNCHANGED <<i, error_dict>>
                ELSE IF Len(parts) < 2
                THEN /\ ret' = Raise("IndexError")
                     /\ pc' = "idle"
                     /\ UNCHANGED <<i, error_dict>>
                ELSE IF IsNoError(error_code.val)
                THEN /\ ret' = Return(error_dict)
                     /\ pc' = "idle"
                     /\ UNCHANGED <<i, error_dict>>
                ELSE /\ error_dict' = DictSet(error_dict, error_code.val, parts[2])
                     /\ i' = i + 1
                     /\ IF i + 1 < ErrorPollCap
                        THEN UNCHANGED <<pc, ret>>
                        ELSE /\ pc' = "idle"
                             /\ ret' = Return(error_dict')
    /\ UNCHANGED <<drv, device, last, instVars, objVars>>

InitErrors ==
    /\ drv \in ErrorDrivers
    /\ device \in DevicesOf(drv)
    /\ pc = "idle"
    /\ i = 0
    /\ error_dict = EmptyDict
    /\ log = <<>>
    /\ last = NoCall
    /\ ret = Pending
    /\ popped = 0
    /\ seen = {}
    /\ zeroRecv = FALSE
    /\ inst = EmptyDict
    /\ setTo = EmptyDict
    /\ heap = EmptyDict
    /\ cfg = NoObject
    /\ cfg0 = NoObject

NextErrors == CheckErrorsCall \/ CheckErrorsPoll

\* the loop is straight-line code: an iteration that can run does run
SpecErrors == InitErrors /\ [][NextErrors]_vars /\ WF_vars(CheckErrorsPoll)

---------------------------------------------------------------------------
(* Claims about check_errors *)

CheckErrorsReturned == last.op = "check_errors" /\ ret.kind = "return"

\* C1: when check_errors returns, its mapping has exactly as many entries as
\* non-zero errors were popped from the instrument's queue, and every popped
\* error is in it with its own message (codes need not be distinct).
C1_EveryPoppedErrorReported ==
    CheckErrorsReturned =>
        /\ Cardinality(DOMAIN ret.val) = popped
        /\ \A e \in seen : e[1] \in DOMAIN ret.val /\ ret.val[e[1]] = e[2]

C2_PollingBounded ==
    last.op = "check_errors" =>
        /\ Len(log) <= ErrorPollCap
        /\ pc = "check_errors" => i = Len(log) /\ i < ErrorPollCap
        /\ zeroRecv => pc = "idle" /\ Len(log) = popped + 1
        /\ (ret.kind = "return" /\ ~zeroRecv) =>
               popped = ErrorPollCap /\ Len(log) = ErrorPollCap

---------------------------------------------------------------------------
(* float(s) *)

\* float(s) for plain decimal text: surrounding whitespace, one sign, digits
\* with at most one point and at least one digit; anything else met here is a
\* ValueError (ok = FALSE). The value is <<mantissa, decimals>>, normalised.
RECURSIVE Normalised(_, _)
Normalised(mant, dec) ==
    IF dec > 0 /\ mant % 10 = 0 THEN Normalised(mant \div 10, dec - 1)
    ELSE <<mant, dec>>

FloatParse(s) ==
    LET t == Strip(s)
        body == IF Signed(t) THEN Tail(t) ELSE t
        parts == Split(body, ".")
        whole == parts[1]
        frac == IF Len(parts) = 2 THEN parts[2] ELSE <<>>
        digits == whole \o frac
        mant == DigitsVal(digits, 0)
    IN  IF Len(parts) <= 2 /\ AllDigits(digits)
        THEN [ok |-> TRUE,
              val |-> Normalised(IF Signed(t) /\ Head(t) = "-" THEN -mant ELSE mant,
                                 Len(frac))]
        ELSE [ok |-> FALSE, val |-> <<0, 0>>]

---------------------------------------------------------------------------
(* Agilent34970A *)

T_Initiate ==
    <<"I", "N", "I", "T", "i", "a", "t", "e">>

T_Fetch ==
    <<"F", "E", "T", "C", "h", "?">>

T_CurrentAC ==
    <<"C", "U", "R", "R", "e", "n", "t", ":", "A", "C">>

T_CurrentDC ==
    <<"C", "U", "R", "R", "e", "n", "t", ":", "D", "C">>

T_Frequency ==
    <<"F", "R", "E", "Q", "u", "e", "n", "c", "y">>

T_FResistance ==
    <<"F", "R", "E", "S", "i", "s", "t", "a", "n", "c", "e">>

T_Period ==
    <<"P", "E", "R", "i", "o", "d">>

T_Resistance ==
    <<"R", "E", "S", "i", "s", "t", "a", "n", "c", "e">>

T_Temperature ==
    <<"T", "E", "M", "P", "e", "r", "a", "t", "u", "r", "e">>

T_VoltageAC ==
    <<"V", "O", "L", "T", "a", "g", "e", ":", "A", "C">>

T_VoltageDC ==
    <<"V", "O", "L", "T", "a", "g", "e", ":", "D", "C">>

\* class Mode(enum.Enum): member name -> value
AgilentMode ==
    [current_ac |-> T_CurrentAC, current_dc |-> T_CurrentDC,
     frequency |-> T_Frequency, fourpt_resistance |-> T_FResistance,
     period |-> T_Period, resistance |-> T_Resistance,
     temperature |-> T_Temperature, voltage_ac |-> T_VoltageAC,
     voltage_dc |-> T_VoltageDC]

\* ','.join(str(x) for x in xs)
JoinInts(xs) == Join(<<",">>, [k \in 1..Len(xs) |-> Str(xs[k])])

\* Configuration.__init__: the object keeps the mode and the list object it
\* was given (a reference into the heap, not a copy)
AgilentConfiguration(mode, channel_list) ==
    [type |-> "Configuration", mode |-> mode, channel_list |-> channel_list]

\* Configuration.channel_list (property)
ConfigChannelList(c, h) == JoinInts(h[c.channel_list])

\* Configuration.mode (property)
ConfigMode(c) == AgilentMode[c.mode]

\* what a Configuration reports: <<mode, channel_list>>
ConfigReport(c, h) == <<ConfigMode(c), ConfigChannelList(c, h)>>

\* 'CONF:{} (@{})'.format(config.mode, config.channel_list)
ConfCommand(c, h) ==
    <<"C", "O", "N", "F", ":">> \o ConfigMode(c) \o <<" ", "(", "@">>
        \o ConfigChannelList(c, h) \o <<")">>

\* `if config and isinstance(config, self.Configuration)`
IsConfiguration(config) == config.type = "Configuration"

\* `results[:-1]`
WithoutTerminator(results) == DropLast(results)

\* [float(x) for x in results[:-1].split(',')]
ParseReadings(results) ==
    LET xs == Split(WithoutTerminator(results), ",")
        fs == [k \in 1..Len(xs) |-> FloatParse(xs[k])]
    IN  IF \A k \in 1..Len(fs) : fs[k].ok
        THEN Return([k \in 1..Len(fs) |-> fs[k].val])
        ELSE Raise("ValueError")

\* the commands of measure(config), in order
AgilentMeasureLog(config, h) ==
    (IF IsConfiguration(config) THEN <<Written(ConfCommand(config, h))>> ELSE <<>>)
        \o <<Written(T_Initiate), Asked(T_Fetch)>>

(* The caller and the instrument *)

\* the longest channel list the caller builds
MaxChannels == 2

\* the most readings in one reply
MaxReadings == 2

ChannelNumbers == {103, 105}

ReadingTexts == {<<"1", ".", "2", "3">>, <<"4", ".", "5", "6">>}

Terminators == {<<"\n">>, <<>>}

\* the readings a reply carries, as the instrument formats them
ReadingLists == UNION {[1..n -> ReadingTexts] : n \in 1..MaxReadings}

\* the reply to FETCh?: comma-separated readings, and the terminator when the
\* adapter leaves it on
FetchReply(readings, term) == Join(<<",">>, readings) \o term

\* the caller's list object
TheList == 1

AgilentIdle == pc = "idle" /\ drv = "Agilent34970A"

\* channels.append(c), by the caller
ListAppend ==
    /\ AgilentIdle
    /\ Len(heap[TheList]) < MaxChannels
    /\ \E c \in ChannelNumbers :
         heap' = [heap EXCEPT ![TheList] = Append(@, c)]
    /\ last' = [op |-> "list.append"]
    /\ log' = <<>>
    /\ ret' = Return(NoObject)
    /\ UNCHANGED <<drv, device, pc, errVars, instVars, cfg, cfg0>>

\* channels.pop(), by the caller
ListPop ==
    /\ AgilentIdle
    /\ heap[TheList] # <<>>
    /\ heap' = [heap EXCEPT ![TheList] = DropLast(@)]
    /\ last' = [op |-> "list.pop"]
    /\ log' = <<>>
    /\ ret' = Return(NoObject)
    /\ UNCHANGED <<drv, device, pc, errVars, instVars, cfg, cfg0>>

\* x.Configuration(mode, channels)
NewAgilentConfiguration ==
    /\ AgilentIdle
    /\ \E m \in DOMAIN AgilentMode :
         /\ cfg' = AgilentConfiguration(m, TheList)
         /\ cfg0' = ConfigReport(cfg', heap)
    /\ last' = [op |-> "Configuration"]
    /\ log' = <<>>
    /\ ret' = Return(NoObject)
    /\ UNCHANGED <<drv, device, pc, errVars, instVars, heap>>

\* config.mode = ..., config.channel_list = ...: the properties have no setter
AgilentConfigurationAssign ==
    /\ AgilentIdle
    /\ IsConfiguration(cfg)
    /\ \E attr \in {"mode", "channel_list"} :
         last' = [op |-> "Configuration.assign", attr |-> attr]
    /\ log' = <<>>
    /\ ret' = Raise("AttributeError")
    /\ UNCHANGED <<drv, device, pc, errVars, instVars, objVars>>

\* x.mode = config
AgilentSetMode ==
    /\ AgilentIdle
    /\ IsConfiguration(cfg)
    /\ last' = [op |-> "mode.set"]
    /\ log' = <<Written(ConfCommand(cfg, heap))>>
    /\ ret' = Return(NoObject)
    /\ UNCHANGED <<drv, device, pc, errVars, instVars, objVars>>

\* x.init()
AgilentInit ==
    /\ AgilentIdle
    /\ last' = [op |-> "init"]
    /\ log' = <<Written(T_Initiate)>>
    /\ ret' = Return(NoObject)
    /\ UNCHANGED <<drv, device, pc, errVars, instVars, objVars>>

\* x.fetch()
AgilentFetch ==
    /\ AgilentIdle
    /\ \E rs \in ReadingLists, term \in Terminators :
         /\ last' = [op |-> "fetch", readings |-> rs, term |-> term]
         /\ ret' = Return(PyStr(FetchReply(rs, term)))
    /\ log' = <<Asked(T_Fetch)>>
    /\ UNCHANGED <<drv, device, pc, errVars, instVars, objVars>>

\* x.measure(config): config is None or the Configuration the caller holds
AgilentMeasure ==
    /\ AgilentIdle
    /\ \E config \in {NoObject, cfg} :
         \E rs \in ReadingLists, term \in Terminators :
           /\ last' = [op |-> "measure", config |-> config,
                       readings |-> rs, term |-> term]
           /\ log' = AgilentMeasureLog(config, heap)
           /\ ret' = ParseReadings(FetchReply(rs, term))
    /\ UNCHANGED <<drv, device, pc, errVars, instVars, objVars>>

Init ==
    /\ drv = "Agilent34970A"
    /\ device = "34970A"
    /\ pc = "idle"
    /\ i = 0
    /\ error_dict = EmptyDict
    /\ log = <<>>
    /\ last = NoCall
    /\ ret = Pending
    /\ popped = 0
    /\ seen = {}
    /\ zeroRecv = FALSE
    /\ inst = EmptyDict
    /\ setTo = EmptyDict
    /\ heap = [o \in {TheList} |-> <<>>]
    /\ cfg = NoObject
    /\ cfg0 = NoObject

Next ==
    \/ ListAppend
    \/ ListPop
    \/ NewAgilentConfiguration
    \/ AgilentConfigurationAssign
    \/ AgilentSetMode
    \/ AgilentInit
    \/ AgilentFetch
    \/ AgilentMeasure

Spec == Init /\ [][Next]_vars

---------------------------------------------------------------------------
(* Claims about Agilent34970A.measure and Configuration *)

MeasuredWithConfiguration == last.op = "measure" /\ IsConfiguration(last.config)

T_ConfVoltageDC103105 ==
    <<"C", "O", "N", "F", ":", "V", "O", "L", "T", "a", "g", "e", ":", "D",
      "C", " ", "(", "@", "1", "0", "3", ",", "1", "0", "5", ")">>

\* the commands of the claim: CONF:<mode token> (@c1,c2,...), INITiate, FETCh?
C3_Commands ==
    /\ Len(log) = 3
    /\ log[1] = Written(<<"C", "O", "N", "F", ":">> \o AgilentMode[last.config.mode]
                          \o <<" ", "(", "@">>
                          \o JoinInts(heap[last.config.channel_list]) \o <<")">>)
    /\ log[2] = Written(T_Initiate)
    /\ log[3] = Asked(T_Fetch)
    /\ (last.config.mode = "voltage_dc" /\ heap[last.config.channel_list] = <<103, 105>>)
           => log[1].text = T_ConfVoltageDC103105

\* the readings of the reply, as numbers, in reply order
ReadingValues(readings) == [k \in 1..Len(readings) |-> FloatParse(readings[k]).val]

\* C3: measure(Configuration(mode, channels)) sends CONF:<mode token> (@c1,...),
\* INITiate, FETCh? and nothing else, and returns the readings of the reply as
\* floats in reply order, whether or not the reply ends with a newline.
C3_MeasureCommandsAndReadings ==
    MeasuredWithConfiguration =>
        /\ C3_Commands
        /\ ret = Return(ReadingValues(last.readings))

\* the command part of C3 alone
C3_MeasureCommands == MeasuredWithConfiguration => C3_Commands

\* the reading part of C3 for replies that end with the newline
C3_ReadingsOfTerminatedReply ==
    (MeasuredWithConfiguration /\ last.term = <<"\n">>) =>
        ret = Return(ReadingValues(last.readings))

\* C9: a Configuration reports, for its whole lifetime, the mode and the
\* channel list it reported when it was constructed.
C9_ConfigurationFixed ==
    IsConfiguration(cfg) => ConfigReport(cfg, heap) = cfg0

\* assignments to a Configuration's properties are refused and change nothing
C9_AssignRefused ==
    last.op = "Configuration.assign" => ret.kind = "raise"

---------------------------------------------------------------------------
(* The simulated instrument: it keeps the argument of the last command written
   for each keyword and echoes it when the keyword is queried. SCPI keywords are
   matched in their short form (SENSe:FUNCtion is SENS:FUNC). *)

\* the keyword of a command: the text before its first space
Keyword(cmd) == Split(cmd, " ")[1]

\* the argument of a command: the text after its first space
Argument(cmd) == Join(<<" ">>, Tail(Split(cmd, " ")))

IsUpper(c) == c \notin LowerCase

\* the short form of a SCPI keyword: its lower-case letters dropped
ShortForm(keyword) == SelectSeq(keyword, IsUpper)

InstWrite(st, cmd) == DictSet(st, ShortForm(Keyword(cmd)), Argument(cmd))

InstKnows(st, query) == ShortForm(DropLast(query)) \in DOMAIN st

InstEcho(st, query) ==
    IF InstKnows(st, query) THEN st[ShortForm(DropLast(query))] ELSE <<>>

T_Garbled ==
    <<"X", "Y", "Z">>

\* replies that are no member's value in any enum of the drivers
StrayReplies == {<<"9", "9">>, T_Garbled, <<>>}

\* what a query may be answered with: the echo of the setting, or a stray reply
Replies(st, query) == {InstEcho(st, query)} \cup StrayReplies

\* the reply is the echo of a value written before
IsEcho(st, query, reply) == InstKnows(st, query) /\ reply = InstEcho(st, query)

---------------------------------------------------------------------------
(* Settings of Agilent34970A and HP6632B whose setter takes an enum *)

T_ON ==
    <<"O", "N">>

T_OFF ==
    <<"O", "F", "F">>

T_REL ==
    <<"R", "E", "L">>

T_ABS ==
    <<"A", "B", "S">>

T_FormatReadingChannel ==
    <<"F", "O", "R", "M", "a", "t", ":", "R", "E", "A", "D", "i", "n", "g",
      ":", "C", "H", "A", "N", "n", "e", "l">>

T_FormatReadingTime ==
    <<"F", "O", "R", "M", "a", "t", ":", "R", "E", "A", "D", "i", "n", "g",
      ":", "T", "I", "M", "E">>

T_FormatReadUnit ==
    <<"F", "O", "R", "M", "a", "t", ":", "R", "E", "A", "D", ":", "U", "N",
      "I", "T">>

T_FormatReadTimeType ==
    <<"F", "O", "R", "M", "a", "t", ":", "R", "E", "A", "D", ":", "T", "I",
      "M", "E", ":", "T", "Y", "P", "E">>

T_SystBeepStat ==
    <<"S", "Y", "S", "T", ":", "B", "E", "E", "P", ":", "S", "T", "A", "T">>

T_CurrentProtectionState ==
    <<"C", "U", "R", "R", "e", "n", "t", ":", "P", "R", "O", "T", "e", "c",
      "t", "i", "o", "n", ":", "S", "T", "A", "T", "e">>

T_Output ==
    <<"O", "U", "T", "P", "u", "t">>

\* class ToggableState(enum.Enum) of Agilent34970A
ToggableState == [on |-> T_ON, off |-> T_OFF]

\* class TimeFormat(enum.Enum) of Agilent34970A
TimeFormat == [relative |-> T_REL, absolute |-> T_ABS]

\* class ToggableMode(enum.Enum) of HP6632B
HP6632BToggableMode == [on |-> T_ON, off |-> T_OFF]

\* '<keyword> {}'.format(value)
SetCommand(keyword, value) == keyword \o <<" ">> \o value

\* '<keyword>?'
QueryCommand(keyword) == Append(keyword, "?")

\* Agilent34970A: property -> <<keyword, enum>>
AgilentSettings ==
    [read_channel |-> <<T_FormatReadingChannel, ToggableState>>,
     read_time |-> <<T_FormatReadingTime, ToggableState>>,
     read_unit |-> <<T_FormatReadUnit, ToggableState>>,
     read_time_format |-> <<T_FormatReadTimeType, TimeFormat>>,
     beep |-> <<T_SystBeepStat, ToggableState>>]

\* HP6632B: property -> <<keyword, enum>>
HP6632BSettings ==
    [overcurrent |-> <<T_CurrentProtectionState, HP6632BToggableMode>>,
     output |-> <<T_Output, HP6632BToggableMode>>]

\* the getters of Agilent34970A's settings: `return self.ask(...)`
AgilentGetterResult(reply) == Return(PyStr(reply))

\* the getters of HP6632B's settings: `return self.ask(...)`
HP6632BGetterResult(reply) == Return(PyStr(reply))

\* x.read_channel = v, x.read_time = v, x.read_unit = v,
\* x.read_time_format = v, x.beep = v
AgilentSet ==
    /\ AgilentIdle
    /\ \E p \in DOMAIN AgilentSettings :
         \E m \in DOMAIN AgilentSettings[p][2] :
           LET cmd == SetCommand(AgilentSettings[p][1], AgilentSettings[p][2][m])
           IN  /\ last' = [op |-> "set", prop |-> p]
               /\ log' = <<Written(cmd)>>
               /\ inst' = InstWrite(inst, cmd)
               /\ setTo' = DictSet(setTo, p, m)
    /\ ret' = Return(NoObject)
    /\ UNCHANGED <<drv, device, pc, errVars, objVars>>

\* x.read_channel, x.read_time, x.read_unit, x.read_time_format, x.beep
AgilentGet ==
    /\ AgilentIdle
    /\ \E p \in DOMAIN AgilentSettings :
         LET query == QueryCommand(AgilentSettings[p][1])
         IN  \E reply \in Replies(inst, query) :
               /\ last' = [op |-> "get", prop |-> p, reply |-> reply,
                           echo |-> IsEcho(inst, query, reply),
                           values |-> EnumValues(AgilentSettings[p][2])]
               /\ log' = <<Asked(query)>>
               /\ ret' = AgilentGetterResult(reply)
    /\ UNCHANGED <<drv, device, pc, errVars, instVars, objVars>>

HP6632BIdle == pc = "idle" /\ drv = "HP6632B"

\* d.overcurrent = v, d.output = v
HP6632BSet ==
    /\ HP6632BIdle
    /\ \E p \in DOMAIN HP6632BSettings :
         \E m \in DOMAIN HP6632BSettings[p][2] :
           LET cmd == SetCommand(HP6632BSettings[p][1], HP6632BSettings[p][2][m])
           IN  /\ last' = [op |-> "set", prop |-> p]
               /\ log' = <<Written(cmd)>>
               /\ inst' = InstWrite(inst, cmd)
               /\ setTo' = DictSet(setTo, p, m)
    /\ ret' = Return(NoObject)
    /\ UNCHANGED <<drv, device, pc, errVars, objVars>>

\* d.overcurrent, d.output
HP6632BGet ==
    /\ HP6632BIdle
    /\ \E p \in DOMAIN HP6632BSettings :
         LET query == QueryCommand(HP6632BSettings[p][1])
         IN  \E reply \in Replies(inst, query) :
               /\ last' = [op |-> "get", prop |-> p, reply |-> reply,
                           echo |-> IsEcho(inst, query, reply),
                           values |-> EnumValues(HP6632BSettings[p][2])]
               /\ log' = <<Asked(query)>>
               /\ ret' = HP6632BGetterResult(reply)
    /\ UNCHANGED <<drv, device, pc, errVars, instVars, objVars>>

InitSettings ==
    /\ drv \in {"Agilent34970A", "HP6632B"}
    /\ device \in DevicesOf(drv)
    /\ pc = "idle"
    /\ i = 0
    /\ error_dict = EmptyDict
    /\ log = <<>>
    /\ last = NoCall
    /\ ret = Pending
    /\ popped = 0
    /\ seen = {}
    /\ zeroRecv = FALSE
    /\ inst = EmptyDict
    /\ setTo = EmptyDict
    /\ heap = EmptyDict
    /\ cfg = NoObject
    /\ cfg0 = NoObject

NextSettings == AgilentSet \/ AgilentGet \/ HP6632BSet \/ HP6632BGet

SpecSettings == InitSettings /\ [][NextSettings]_vars

---------------------------------------------------------------------------
(* Claims about the getters of enum-valued settings *)

\* the reply of the last getter call is the value of a member of the enum
ReplyRecognised == last.reply \in last.values

\* C10: the getter of an enum-valued setting raises on a reply that is the
\* value of no member of the enum, and never returns it.
C10_UnrecognisedReplyRaises ==
    (last.op = "get" /\ ~ReplyRecognised) => ret.kind = "raise"

---------------------------------------------------------------------------
(* Keithley2182 *)

T_QuotedVolt ==
    <<"'", "V", "O", "L", "T", "'">>

T_QuotedTemp ==
    <<"'", "T", "E", "M", "P", "'">>

T_DoubleQuotedVolt ==
    <<"\"", "V", "O", "L", "T", "\"">>

T_SensFunc ==
    <<"S", "E", "N", "S", ":", "F", "U", "N", "C">>

T_SenseFunction ==
    <<"S", "E", "N", "S", "e", ":", "F", "U", "N", "C", "t", "i", "o", "n">>

T_SenseChan ==
    <<"S", "E", "N", "S", "e", ":", "C", "H", "A", "N">>

\* class Mode(enum.Enum): the values hold the single quotes
KeithleyMode == [voltage |-> T_QuotedVolt, temperature |-> T_QuotedTemp]

\* class Channel(enum.Enum)
KeithleyChannel == [internal_temp |-> 0, dcv_1 |-> 1, dcv_2 |-> 2]

\* a channel number outside the enum
OutOfRangeChannel == 5

\* Configuration.__init__: mode and channel are kept as given, unchecked
KeithleyConfiguration(mode, channel) ==
    [type |-> "Configuration", mode |-> mode, channel |-> channel]

\* what a Configuration reports: <<mode, channel>>
KeithleyConfigReport(c) == <<c.mode, c.channel>>

\* `x.value` is an AttributeError unless x is an enum member
HasValue(x) == x.type = "enum"

\* mode_value.value, channel_value.value
KeithleyValueOf(x) ==
    IF x.cls = "Mode" THEN KeithleyMode[x.name] ELSE KeithleyChannel[x.name]

\* 'SENS:FUNC {}'.format(mode_value.value)
KeithleyModeCommand(mode_value) ==
    SetCommand(T_SensFunc, KeithleyValueOf(mode_value))

\* 'SENSe:CHAN {}'.format(str(channel_value.value))
KeithleyChannelCommand(channel_value) ==
    SetCommand(T_SenseChan, Str(KeithleyValueOf(channel_value)))

\* self.Mode(self.ask('SENSe:FUNCtion?')[1:5])
KeithleyModeGetter(reply) == EnumLookup("Mode", KeithleyMode, Slice(reply, 1, 5))

\* self.Channel(int(self.ask('SENSe:CHAN?')))
KeithleyChannelGetter(reply) ==
    IF IntParse(reply).ok
    THEN EnumLookup("Channel", KeithleyChannel, IntParse(reply).val)
    ELSE Raise("ValueError")

\* the wire values of the two settings, as the setters write them
KeithleyWireValues(p) ==
    IF p = "mode" THEN EnumValues(KeithleyMode)
    ELSE {Str(v) : v \in EnumValues(KeithleyChannel)}

\* the writes of `self.mode = conf_value.mode; self.channel = conf_value.channel`
\* that happen before an AttributeError, if any, ends the setter
KeithleyConfigurationWrites(conf_value) ==
    IF ~HasValue(conf_value.mode) THEN <<>>
    ELSE IF ~HasValue(conf_value.channel)
    THEN <<KeithleyModeCommand(conf_value.mode)>>
    ELSE <<KeithleyModeCommand(conf_value.mode),
           KeithleyChannelCommand(conf_value.channel)>>

KeithleyConfigurationOk(conf_value) ==
    HasValue(conf_value.mode) /\ HasValue(conf_value.channel)

\* the instrument after a sequence of commands
RECURSIVE InstWriteAll(_, _)
InstWriteAll(st, cmds) ==
    IF cmds = <<>> THEN st ELSE InstWriteAll(InstWrite(st, Head(cmds)), Tail(cmds))

WrittenAll(cmds) == [k \in 1..Len(cmds) |-> Written(cmds[k])]

\* float(self.fetch())
KeithleyParseReading(reply) ==
    IF FloatParse(reply).ok THEN Return(FloatParse(reply).val) ELSE Raise("ValueError")

(* The caller and the instrument *)

KeithleyModes == {PyEnum("Mode", m) : m \in DOMAIN KeithleyMode}

KeithleyChannels == {PyEnum("Channel", c) : c \in DOMAIN KeithleyChannel}

\* what a caller may pass as a channel: a member, or the bare number 5
ChannelArguments == KeithleyChannels \cup {PyInt(OutOfRangeChannel)}

KeithleyIdle == pc = "idle" /\ drv = "Keithley2182"

\* d.mode = m
KeithleySetMode ==
    /\ KeithleyIdle
    /\ \E m \in KeithleyModes :
         /\ last' = [op |-> "set", prop |-> "mode", arg |-> m]
         /\ log' = <<Written(KeithleyModeCommand(m))>>
         /\ inst' = InstWrite(inst, KeithleyModeCommand(m))
         /\ setTo' = DictSet(setTo, "mode", m)
    /\ ret' = Return(NoObject)
    /\ UNCHANGED <<drv, device, pc, errVars, objVars>>

\* d.mode
KeithleyGetMode ==
    /\ KeithleyIdle
    /\ LET query == QueryCommand(T_SenseFunction)
       IN  \E reply \in Replies(inst, query) \cup {T_DoubleQuotedVolt} :
             /\ last' = [op |-> "get", prop |-> "mode", reply |-> reply,
                         echo |-> IsEcho(inst, query, reply),
                         values |-> KeithleyWireValues("mode")]
             /\ log' = <<Asked(query)>>
             /\ ret' = KeithleyModeGetter(reply)
    /\ UNCHANGED <<drv, device, pc, errVars, instVars, objVars>>

\* d.channel = c, where c is a member of Channel or the bare number 5
KeithleySetChannel ==
    /\ KeithleyIdle
    /\ \E c \in ChannelArguments :
         /\ last' = [op |-> "set", prop |-> "channel", arg |-> c]
         /\ IF HasValue(c)
            THEN /\ log' = <<Written(KeithleyChannelCommand(c))>>
                 /\ inst' = InstWrite(inst, KeithleyChannelCommand(c))
                 /\ setTo' = DictSet(setTo, "channel", c)
                 /\ ret' = Return(NoObject)
            ELSE /\ log' = <<>>
                 /\ ret' = Raise("AttributeError")
                 /\ UNCHANGED instVars
    /\ UNCHANGED <<drv, device, pc, errVars, objVars>>

\* d.channel = d.Channel(n): the enum lookup runs first, in the caller
KeithleySetChannelByNumber ==
    /\ KeithleyIdle
    /\ \E n \in EnumValues(KeithleyChannel) \cup {OutOfRangeChannel} :
         LET c == EnumLookup("Channel", KeithleyChannel, n)
         IN  /\ last' = [op |-> "set", prop |-> "channel", arg |-> PyInt(n)]
             /\ IF c.kind = "return"
                THEN /\ log' = <<Written(KeithleyChannelCommand(c.val))>>
                     /\ inst' = InstWrite(inst, KeithleyChannelCommand(c.val))
                     /\ setTo' = DictSet(setTo, "channel", c.val)
                     /\ ret' = Return(NoObject)
                ELSE /\ log' = <<>>
                     /\ ret' = c
                     /\ UNCHANGED instVars
    /\ UNCHANGED <<drv, device, pc, errVars, objVars>>

\* d.channel
KeithleyGetChannel ==
    /\ KeithleyIdle
    /\ LET query == QueryCommand(T_SenseChan)
       IN  \E reply \in Replies(inst, query) :
             /\ last' = [op |-> "get", prop |-> "channel", reply |-> reply,
                         echo |-> IsEcho(inst, query, reply),
                         values |-> KeithleyWireValues("channel")]
             /\ log' = <<Asked(query)>>
             /\ ret' = KeithleyChannelGetter(reply)
    /\ UNCHANGED <<drv, device, pc, errVars, instVars, objVars>>

\* d.Configuration(mode, channel)
NewKeithleyConfiguration ==
    /\ KeithleyIdle
    /\ \E m \in KeithleyModes, c \in ChannelArguments :
         /\ cfg' = KeithleyConfiguration(m, c)
         /\ cfg0' = KeithleyConfigReport(cfg')
    /\ last' = [op |-> "Configuration"]
    /\ log' = <<>>
    /\ ret' = Return(NoObject)
    /\ UNCHANGED <<drv, device, pc, errVars, instVars, heap>>

\* config.mode = ..., config.channel = ...: the setters raise
KeithleyConfigurationAssign ==
    /\ KeithleyIdle
    /\ IsConfiguration(cfg)
    /\ \E attr \in {"mode", "channel"} :
         last' = [op |-> "Configuration.assign", attr |-> attr]
    /\ log' = <<>>
    /\ ret' = Raise("NotImplementedError")
    /\ UNCHANGED <<drv, device, pc, errVars, instVars, objVars>>

\* the history of the settings after the configuration setter
SetToAfter(st, conf_value) ==
    IF ~HasValue(conf_value.mode) THEN st
    ELSE IF ~HasValue(conf_value.channel) THEN DictSet(st, "mode", conf_value.mode)
    ELSE DictSet(DictSet(st, "mode", conf_value.mode), "channel", conf_value.channel)

\* d.configuration = config
KeithleySetConfiguration ==
    /\ KeithleyIdle
    /\ IsConfiguration(cfg)
    /\ last' = [op |-> "configuration.set", config |-> cfg]
    /\ log' = WrittenAll(KeithleyConfigurationWrites(cfg))
    /\ inst' = InstWriteAll(inst, KeithleyConfigurationWrites(cfg))
    /\ setTo' = SetToAfter(setTo, cfg)
    /\ ret' = IF KeithleyConfigurationOk(cfg)
              THEN Return(NoObject) ELSE Raise("AttributeError")
    /\ UNCHANGED <<drv, device, pc, errVars, objVars>>

\* d.initiate()
KeithleyInitiate ==
    /\ KeithleyIdle
    /\ last' = [op |-> "initiate"]
    /\ log' = <<Written(T_Initiate)>>
    /\ ret' = Return(NoObject)
    /\ UNCHANGED <<drv, device, pc, errVars, instVars, objVars>>

\* d.fetch()
KeithleyFetch ==
    /\ KeithleyIdle
    /\ \E r \in ReadingTexts, term \in Terminators :
         /\ last' = [op |-> "fetch", readings |-> <<r>>, term |-> term]
         /\ ret' = Return(PyStr(FetchReply(<<r>>, term)))
    /\ log' = <<Asked(T_Fetch)>>
    /\ UNCHANGED <<drv, device, pc, errVars, instVars, objVars>>

\* d.measure(config): config is None or the Configuration the caller holds
KeithleyMeasure ==
    /\ KeithleyIdle
    /\ \E config \in {NoObject, cfg} :
         \E r \in ReadingTexts, term \in Terminators :
           LET writes == IF IsConfiguration(config)
                         THEN KeithleyConfigurationWrites(config) ELSE <<>>
               applied == ~IsConfiguration(config) \/ KeithleyConfigurationOk(config)
           IN  /\ last' = [op |-> "measure", config |-> config,
                           readings |-> <<r>>, term |-> term]
               /\ inst' = InstWriteAll(inst, writes)
               /\ setTo' = IF IsConfiguration(config)
                           THEN SetToAfter(setTo, config) ELSE setTo
               /\ IF applied
                  THEN /\ log' = Append(WrittenAll(writes), Asked(T_Fetch))
                       /\ ret' = KeithleyParseReading(FetchReply(<<r>>, term))
                  ELSE /\ log' = WrittenAll(writes)
                       /\ ret' = Raise("AttributeError")
    /\ UNCHANGED <<drv, device, pc, errVars, objVars>>

InitKeithley ==
    /\ drv = "Keithley2182"
    /\ device = "2182"
    /\ pc = "idle"
    /\ i = 0
    /\ error_dict = EmptyDict
    /\ log = <<>>
    /\ last = NoCall
    /\ ret = Pending
    /\ popped = 0
    /\ seen = {}
    /\ zeroRecv = FALSE
    /\ inst = EmptyDict
    /\ setTo = EmptyDict
    /\ heap = EmptyDict
    /\ cfg = NoObject
    /\ cfg0 = NoObject

NextKeithley ==
    \/ KeithleySetMode
    \/ KeithleyGetMode
    \/ KeithleySetChannel
    \/ KeithleySetChannelByNumber
    \/ KeithleyGetChannel
    \/ NewKeithleyConfiguration
    \/ KeithleyConfigurationAssign
    \/ KeithleySetConfiguration
    \/ KeithleyInitiate
    \/ KeithleyFetch
    \/ KeithleyMeasure

SpecKeithley == InitKeithley /\ [][NextKeithley]_vars

---------------------------------------------------------------------------
(* Claims about Keithley2182, and about measure in every driver *)

ChannelFive == PyInt(OutOfRangeChannel)

\* the last call set, or tried to set, channel 5: through the channel setter,
\* the configuration setter or measure(config=...)
SetsChannelFive ==
    \/ last.op = "set" /\ last.prop = "channel" /\ last.arg = ChannelFive
    \/ /\ last.op \in {"configuration.set", "measure"}
       /\ IsConfiguration(last.config)
       /\ last.config.channel = ChannelFive

\* C4: setting channel 5 fails before any command is sent, on every path that
\* sets the channel.
C4_ChannelFiveSendsNothing ==
    SetsChannelFive => ret.kind = "raise" /\ log = <<>>

\* the channel setter alone does refuse channel 5 before it writes
C4_ChannelSetterSendsNothing ==
    (last.op = "set" /\ last.prop = "channel" /\ last.arg = ChannelFive)
        => ret.kind = "raise" /\ log = <<>>

T_Trig ==
    <<"T", "R", "I", "G">>

\* the instrument's initiate or trigger command
IsInitiate(e) ==
    e.kind = "write" /\ (e.text = T_Initiate \/ Keyword(e.text) = T_Trig)

\* the fetch of a result
IsFetch(e) == (e.kind = "ask" /\ e.text = T_Fetch) \/ e.kind = "read"

\* a command that applies a configuration
IsConfigure(e) == e.kind = "write" /\ ~IsInitiate(e)

\* C5: a measure call fetches a result only after it has issued the initiate
\* or trigger command, and issues that command after the supplied
\* Configuration has been applied.
C5_InitiateBeforeFetch ==
    last.op = "measure" =>
        \A f \in 1..Len(log) :
            IsFetch(log[f]) =>
                \E k \in 1..(f - 1) :
                    /\ IsInitiate(log[k])
                    /\ \A w \in 1..(f - 1) : IsConfigure(log[w]) => w < k

\* the last call read a setting that a setter had set, and was answered with
\* the echo of what the setter wrote
EchoedGet == last.op = "get" /\ last.echo /\ last.prop \in DOMAIN setTo

\* C6: on Keithley2182, a mode or channel that was set and is then queried
\* against the echoing instrument reads back as the member that was set.
C6_KeithleyRoundTrip ==
    (drv = "Keithley2182" /\ EchoedGet) => ret = Return(setTo[last.prop])

\* the channel half of C6
C6_ChannelRoundTrip ==
    (drv = "Keithley2182" /\ EchoedGet /\ last.prop = "channel")
        => ret = Return(setTo[last.prop])

\* the Configuration of Keithley2182 reports what it was constructed with
C9_KeithleyConfigurationFixed ==
    (drv = "Keithley2182" /\ IsConfiguration(cfg)) => KeithleyConfigReport(cfg) = cfg0

---------------------------------------------------------------------------
(* HP3458A *)

T_FUNC ==
    <<"F", "U", "N", "C">>

T_TARM ==
    <<"T", "A", "R", "M">>

T_OFORMAT ==
    <<"O", "F", "O", "R", "M", "A", "T">>

T_MFORMAT ==
    <<"M", "F", "O", "R", "M", "A", "T">>

T_DISP ==
    <<"D", "I", "S", "P">>

T_AZERO ==
    <<"A", "Z", "E", "R", "O">>

\* class Mode(enum.Enum)
HPMode ==
    [current_ac |-> 7, current_dc |-> 6, current_acdc |-> 8,
     voltage_ac |-> 2, voltage_dc |-> 1, voltage_acdc |-> 3,
     frequency |-> 9, period |-> 10,
     fourpt_resistance |-> 5, resistance |-> 4,
     direct_sampling_ac |-> 11, direct_sampling_dc |-> 12,
     sub_sampling_ac |-> 13, sub_sampling_dc |-> 14]

\* class ToggableMode(enum.Enum)
HPToggableMode == [off |-> 0, on |-> 1]

\* class TriggerMode(enum.Enum)
HPTriggerMode ==
    [auto |-> 1, external |-> 2, syn |-> 5, single |-> 3, hold |-> 4,
     level |-> 7, line |-> 8]

\* class FormatMode(enum.Enum)
HPFormatMode == [ascii |-> 1, sint |-> 2, dint |-> 3, sreal |-> 4, dreal |-> 5]

\* the enum classes by name
HPEnum(cls) ==
    CASE cls = "Mode" -> HPMode
      [] cls = "ToggableMode" -> HPToggableMode
      [] cls = "TriggerMode" -> HPTriggerMode
      [] cls = "FormatMode" -> HPFormatMode

\* member.value
HPValueOf(x) == HPEnum(x.cls)[x.name]

\* the enum class each setting takes
HPSettingClass ==
    [mode |-> "Mode", trigger_arm |-> "TriggerMode",
     oformat |-> "FormatMode", mformat |-> "FormatMode"]

\* the setter keywords with the mformat setter writing the output format's keyword
HPSetKeyword_MformatAsOformat(p) ==
    CASE p = "mode" -> T_FUNC
      [] p = "trigger_arm" -> T_TARM
      [] p = "oformat" -> T_OFORMAT
      [] p = "mformat" -> T_OFORMAT

\* the keyword each setter writes
HPSetKeyword(p) ==
    CASE p = "mode" -> T_FUNC
      [] p = "trigger_arm" -> T_TARM
      [] p = "oformat" -> T_OFORMAT
      [] p = "mformat" -> T_MFORMAT

\* the keyword each getter queries
HPGetKeyword(p) ==
    CASE p = "mode" -> T_FUNC
      [] p = "trigger_arm" -> T_TARM
      [] p = "oformat" -> T_OFORMAT
      [] p = "mformat" -> T_MFORMAT

\* '<KEYWORD> {}'.format(member.value)
HPSetCommand(p, member) == SetCommand(HPSetKeyword(p), Str(HPValueOf(member)))

\* the text a getter hands to int(): the reply, or for mode its first
\* comma-separated field
HPReplyField(p, reply) == IF p = "mode" THEN Split(reply, ",")[1] ELSE reply

\* self.<Enum>(int(...)) of the getters
HPGetter(p, reply) ==
    LET n == IntParse(HPReplyField(p, reply))
    IN  IF n.ok THEN EnumLookup(HPSettingClass[p], HPEnum(HPSettingClass[p]), n.val)
        ELSE Raise("ValueError")

\* a (size, encoding) pair
ReadConfig(size, enc) == [type |-> "tuple", size |-> size, enc |-> enc]

\* the table with dint read as a single integer
FormatConfig_DintTwoBytes(fmt) ==
    CASE fmt = "ascii" -> ReadConfig(-1, "utf-8")
      [] fmt = "sint" -> ReadConfig(2, "SI/16")
      [] fmt = "dint" -> ReadConfig(2, "SI/16")
      [] fmt = "sreal" -> ReadConfig(4, "IEEE-754/32")
      [] fmt = "dreal" -> ReadConfig(8, "IEEE-754/64")

\* FORMAT_CONFIG[fmt]
FormatConfig(fmt) ==
    CASE fmt = "ascii" -> ReadConfig(-1, "utf-8")
      [] fmt = "sint" -> ReadConfig(2, "SI/16")
      [] fmt = "dint" -> ReadConfig(4, "DI/32")
      [] fmt = "sreal" -> ReadConfig(4, "IEEE-754/32")
      [] fmt = "dreal" -> ReadConfig(8, "IEEE-754/64")

\* self.__trigger_type, set to TriggerMode.auto in __init__ (its setter,
\* trigger_mode, is not among the calls modelled here)
HPTriggerType == PyEnum("TriggerMode", "auto")

\* 'TRIG {}'.format(self.trigger_mode.value)
HPTriggerCommand == SetCommand(T_Trig, Str(HPValueOf(HPTriggerType)))

\* the commands __init__ writes, in order
HPInitCommands ==
    <<SetCommand(T_TARM, Str(HPTriggerMode["hold"])),
      SetCommand(T_MFORMAT, Str(HPFormatMode["dreal"])),
      SetCommand(T_OFORMAT, Str(HPFormatMode["dreal"])),
      SetCommand(T_DISP, Str(HPToggableMode["off"])),
      SetCommand(T_AZERO, Str(HPToggableMode["off"])),
      SetCommand(T_TARM, Str(HPTriggerMode["syn"]))>>

\* what the setters were last given, after __init__
HPInitSetTo ==
    [trigger_arm |-> PyEnum("TriggerMode", "syn"),
     mformat |-> PyEnum("FormatMode", "dreal"),
     oformat |-> PyEnum("FormatMode", "dreal")]

(* The caller and the instrument *)

HPMembers(p) == {PyEnum(HPSettingClass[p], m) : m \in DOMAIN HPEnum(HPSettingClass[p])}

\* the modes that measure is called with by the driver's own properties
\* (voltage_dc, current_dc, voltage_ac, current_ac, resistance, resistance_4w)
MeasuredModes ==
    {PyEnum("Mode", m) : m \in {"voltage_dc", "current_dc", "voltage_ac",
                                "current_ac", "resistance", "fourpt_resistance"}}

\* the read_config a caller passes in place of None
GivenReadConfigs == {ReadConfig(2, "SI/16")}

\* what a query of the HP3458A may be answered with
HPReplies(st, query) == {InstEcho(st, query), T_Garbled}

HPIdle == pc = "idle" /\ drv = "HP3458A"

\* dvm.mode = m, dvm.trigger_arm = m, dvm.oformat = m, dvm.mformat = m
HPSet ==
    /\ HPIdle
    /\ \E p \in DOMAIN HPSettingClass :
         \E m \in HPMembers(p) :
           /\ last' = [op |-> "set", prop |-> p]
           /\ log' = <<Written(HPSetCommand(p, m))>>
           /\ inst' = InstWrite(inst, HPSetCommand(p, m))
           /\ setTo' = DictSet(setTo, p, m)
    /\ ret' = Return(NoObject)
    /\ UNCHANGED <<drv, device, pc, errVars, objVars>>

\* dvm.mode, dvm.trigger_arm, dvm.oformat, dvm.mformat
HPGet ==
    /\ HPIdle
    /\ \E p \in DOMAIN HPSettingClass :
         LET query == QueryCommand(HPGetKeyword(p))
         IN  \E reply \in HPReplies(inst, query) :
               /\ last' = [op |-> "get", prop |-> p, reply |-> reply,
                           echo |-> IsEcho(inst, query, reply),
                           values |-> {Str(v) : v \in EnumValues(HPEnum(HPSettingClass[p]))}]
               /\ log' = <<Asked(query)>>
               /\ ret' = HPGetter(p, reply)
    /\ UNCHANGED <<drv, device, pc, errVars, instVars, objVars>>

\* the format that measure sizes its read by: self.oformat
HPMeasureFormatSetting == "oformat"

\* dvm.measure(mode, read_config)
HPMeasure ==
    /\ HPIdle
    /\ \E mode \in {NoObject} \cup MeasuredModes,
          read_config \in {NoObject} \cup GivenReadConfigs :
         LET set == IF mode = NoObject THEN <<>> ELSE <<HPSetCommand("mode", mode)>>
             st == InstWriteAll(inst, set)
             query == QueryCommand(HPGetKeyword(HPMeasureFormatSetting))
         IN  /\ inst' = st
             /\ setTo' = IF mode = NoObject THEN setTo ELSE DictSet(setTo, "mode", mode)
             /\ IF read_config # NoObject
                THEN /\ last' = [op |-> "measure", mode |-> mode,
                                 read_config |-> read_config, echo |-> FALSE]
                     /\ log' = WrittenAll(set)
                                 \o <<Written(HPTriggerCommand),
                                      ReadRaw(read_config.size, read_config.enc)>>
                     /\ ret' = Return(read_config)
                ELSE \E reply \in HPReplies(st, query) :
                       LET fmt == HPGetter(HPMeasureFormatSetting, reply)
                       IN  /\ last' = [op |-> "measure", mode |-> mode,
                                       read_config |-> read_config,
                                       echo |-> IsEcho(st, query, reply)]
                           /\ IF fmt.kind = "raise"
                              THEN /\ log' = Append(WrittenAll(set), Asked(query))
                                   /\ ret' = fmt
                              ELSE LET rc == FormatConfig(fmt.val.name)
                                   IN  /\ log' = WrittenAll(set)
                                                   \o <<Asked(query),
                                                        Written(HPTriggerCommand),
                                                        ReadRaw(rc.size, rc.enc)>>
                                       /\ ret' = Return(rc)
    /\ UNCHANGED <<drv, device, pc, errVars, objVars>>

\* the state after HP3458A.__init__
InitHP ==
    /\ drv = "HP3458A"
    /\ device = "3458A"
    /\ pc = "idle"
    /\ i = 0
    /\ error_dict = EmptyDict
    /\ log = WrittenAll(HPInitCommands)
    /\ last = [op |-> "__init__"]
    /\ ret = Return(NoObject)
    /\ popped = 0
    /\ seen = {}
    /\ zeroRecv = FALSE
    /\ inst = InstWriteAll(EmptyDict, HPInitCommands)
    /\ setTo = HPInitSetTo
    /\ heap = EmptyDict
    /\ cfg = NoObject
    /\ cfg0 = NoObject

NextHP == HPSet \/ HPGet \/ HPMeasure

SpecHP == InitHP /\ [][NextHP]_vars

---------------------------------------------------------------------------
(* Claims about HP3458A *)

\* C7: on HP3458A, a mode, trigger_arm, oformat or mformat that was set reads
\* back, against the echoing instrument, as the member that was set, whatever
\* other settings were set in between.
C7_HPRoundTrip ==
    (drv = "HP3458A" /\ EchoedGet) => ret = Return(setTo[last.prop])

\* all four settings were set, mformat last read back as sint
C7_Witness ==
    /\ drv = "HP3458A"
    /\ EchoedGet
    /\ last.prop = "mformat"
    /\ DOMAIN setTo = {"mode", "trigger_arm", "oformat", "mformat"}
    /\ setTo["mode"] = PyEnum("Mode", "sub_sampling_dc")
    /\ setTo["trigger_arm"] = PyEnum("TriggerMode", "line")
    /\ setTo["oformat"] = PyEnum("FormatMode", "ascii")
    /\ ret = Return(PyEnum("FormatMode", "sint"))

\* the (size, encoding) of the claim for each output format
C8_ReadOf(fmt) ==
    CASE fmt = "sint" -> ReadRaw(2, "SI/16")
      [] fmt = "dint" -> ReadRaw(4, "DI/32")
      [] fmt = "sreal" -> ReadRaw(4, "IEEE-754/32")
      [] fmt = "dreal" -> ReadRaw(8, "IEEE-754/64")
      [] fmt = "ascii" -> ReadRaw(-1, "utf-8")

T_OformatQuery ==
    <<"O", "F", "O", "R", "M", "A", "T", "?">>

MeasuredByFormat ==
    drv = "HP3458A" /\ last.op = "measure" /\ last.read_config = NoObject /\ last.echo

\* C8: measure without read_config queries OFORMAT?, then sends TRIG, then
\* issues one read, whose size and encoding are those of the output format
\* last set.
C8_ReadSizedByOutputFormat ==
    MeasuredByFormat =>
        LET n == Len(log)
        IN  /\ n >= 3
            /\ log[n - 2] = Asked(T_OformatQuery)
            /\ log[n - 1].kind = "write" /\ Keyword(log[n - 1].text) = T_Trig
            /\ log[n] = C8_ReadOf(setTo["oformat"].name)
            /\ \A k \in 1..(n - 1) : log[k].kind # "read"
            /\ \A k \in 1..(n - 3) : log[k].kind = "write"

\* after the output format was changed to dint, a measure reads four bytes
C8_Witness ==
    /\ MeasuredByFormat
    /\ setTo["oformat"] = PyEnum("FormatMode", "dint")
    /\ setTo["mformat"] = PyEnum("FormatMode", "sint")
    /\ log[Len(log)] = ReadRaw(4, "DI/32")
    /\ ret.kind = "return"

---------------------------------------------------------------------------
(* The scan list of Agilent34970A: channels and clear_all_channels *)

T_RoutScan ==
    <<"R", "O", "U", "T", ":", "S", "C", "A", "N">>

\* a list
PyList(items) == [type |-> "list", items |-> items]

\* 'ROUT:SCAN (@{})'.format(','.join(str(x) for x in channel_list))
ChannelsCommand(channel_list) ==
    T_RoutScan \o <<" ", "(", "@">> \o JoinInts(channel_list) \o <<")">>

\* the end of the line that position a is on: "." matches no newline
LineEnd(s, a) ==
    IF \E k \in a..Len(s) : s[k] = "\n"
    THEN CHOOSE k \in a..Len(s) : s[k] = "\n" /\ \A j \in a..(k - 1) : s[j] # "\n"
    ELSE Len(s) + 1

\* the positions after a, on its line, that hold a closing parenthesis
ClosingAfter(s, a) == {b \in (a + 1)..(LineEnd(s, a) - 1) : s[b] = ")"}

\* the positions where the pattern @(.*)\) matches
ScanMatches(s) == {a \in 1..Len(s) : s[a] = "@" /\ ClosingAfter(s, a) # {}}

\* the group with the opening parenthesis taken for the at sign
ScanGroup_FromParenthesis(s) ==
    LET a == CHOOSE x \in 1..Len(s) : s[x] = "("
        b == CHOOSE x \in ClosingAfter(s, a) : \A y \in ClosingAfter(s, a) : y <= x
    IN  SubSeq(s, a + 1, b - 1)

\* re.search(r'@(.*)\)', response, re.M).group(1): the leftmost match, its
\* group as long as it can be
ScanGroup(s) ==
    LET a == CHOOSE x \in ScanMatches(s) : \A y \in ScanMatches(s) : x <= y
        b == CHOOSE x \in ClosingAfter(s, a) : \A y \in ClosingAfter(s, a) : y <= x
    IN  SubSeq(s, a + 1, b - 1)

\* the getter with an empty field read as no channel
ChannelsGetter_EmptyFieldSkipped(response) ==
    IF ScanMatches(response) = {} THEN Raise("AttributeError")
    ELSE LET fields == SelectSeq(Split(ScanGroup(response), ","),
                                 LAMBDA f : f # <<>>)
         IN  IF \A k \in 1..Len(fields) : IntParse(fields[k]).ok
             THEN Return(PyList([k \in 1..Len(fields) |-> IntParse(fields[k]).val]))
             ELSE Raise("ValueError")

\* [int(x) for x in regex_find.group(1).split(',')]; regex_find is None when
\* nothing matches, and None.group is an AttributeError
ChannelsGetter(response) ==
    IF ScanMatches(response) = {} THEN Raise("AttributeError")
    ELSE LET fields == Split(ScanGroup(response), ",")
         IN  IF \A k \in 1..Len(fields) : IntParse(fields[k]).ok
             THEN Return(PyList([k \in 1..Len(fields) |-> IntParse(fields[k]).val]))
             ELSE Raise("ValueError")

(* The caller and the instrument *)

MaxScanLength == 3

ScanChannels == {101, 102, 213}

\* the lists a caller passes to the channels setter
RECURSIVE ListsUpTo(_, _)
ListsUpTo(S, n) ==
    IF n = 0 THEN {<<>>}
    ELSE ListsUpTo(S, n - 1)
           \cup {Append(l, x) : l \in {m \in ListsUpTo(S, n - 1) : Len(m) = n - 1}, x \in S}

ChannelLists == ListsUpTo(ScanChannels, MaxScanLength)

T_ScanThree ==
    <<"(", "@", "1", "0", "1", ",", "1", "0", "2", ",", "2", "1", "3", ")">>

T_ScanBlock ==
    <<"#", "2", "1", "4", "(", "@", "1", "0", "1", ",", "1", "0", "2", ",",
      "2", "1", "3", ")", "\n">>

T_ScanSpaced ==
    <<"(", "@", "2", "1", "3", ",", " ", "1", "0", "1", ")">>

T_ScanEmpty ==
    <<"(", "@", ")">>

\* replies to ROUT:SCAN? beside the echo of the scan list last set
StrayScanReplies == {T_ScanThree, T_ScanBlock, T_ScanSpaced, T_Garbled}

ScanReplies(st, query) == {InstEcho(st, query)} \cup StrayScanReplies

\* x.channels = channel_list
AgilentSetChannels ==
    /\ AgilentIdle
    /\ \E channel_list \in ChannelLists :
         /\ log' = <<Written(ChannelsCommand(channel_list))>>
         /\ inst' = InstWrite(inst, ChannelsCommand(channel_list))
         /\ setTo' = DictSet(setTo, "channels", PyList(channel_list))
    /\ last' = [op |-> "set_channels", after |-> last.op]
    /\ ret' = Return(NoObject)
    /\ UNCHANGED <<drv, device, pc, errVars, objVars>>

\* x.clear_all_channels(): self.channels = []
AgilentClearAllChannels ==
    /\ AgilentIdle
    /\ log' = <<Written(ChannelsCommand(<<>>))>>
    /\ inst' = InstWrite(inst, ChannelsCommand(<<>>))
    /\ setTo' = DictSet(setTo, "channels", PyList(<<>>))
    /\ last' = [op |-> "clear_all_channels", after |-> last.op]
    /\ ret' = Return(NoObject)
    /\ UNCHANGED <<drv, device, pc, errVars, objVars>>

\* x.channels
AgilentGetChannels ==
    /\ AgilentIdle
    /\ LET query == QueryCommand(T_RoutScan)
       IN  \E reply \in ScanReplies(inst, query) :
             /\ last' = [op |-> "get_channels", after |-> last.op, reply |-> reply,
                         echo |-> IsEcho(inst, query, reply)]
             /\ log' = <<Asked(query)>>
             /\ ret' = ChannelsGetter(reply)
    /\ UNCHANGED <<drv, device, pc, errVars, instVars, objVars>>

\* the state after Agilent34970A.__init__: nothing written yet
InitChannels ==
    /\ drv = "Agilent34970A"
    /\ device = "34970A"
    /\ pc = "idle"
    /\ i = 0
    /\ error_dict = EmptyDict
    /\ log = <<>>
    /\ last = NoCall
    /\ ret = Return(NoObject)
    /\ popped = 0
    /\ seen = {}
    /\ zeroRecv = FALSE
    /\ inst = EmptyDict
    /\ setTo = EmptyDict
    /\ heap = EmptyDict
    /\ cfg = NoObject
    /\ cfg0 = NoObject

NextChannels == AgilentSetChannels \/ AgilentClearAllChannels \/ AgilentGetChannels

SpecChannels == InitChannels /\ [][NextChannels]_vars

---------------------------------------------------------------------------
(* Claims about the scan list *)

T_RoutScanQuery ==
    <<"R", "O", "U", "T", ":", "S", "C", "A", "N", "?">>

GotChannels == drv = "Agilent34970A" /\ last.op = "get_channels"

\* C11: the channels getter sends ROUT:SCAN? and nothing else; the reply
\* (@101,102,213) yields [101, 102, 213]; and the echo of a non-empty list set
\* through the channels setter yields that list, in its order.
C11_ChannelsParsedInOrder ==
    GotChannels =>
        /\ log = <<Asked(T_RoutScanQuery)>>
        /\ last.reply = T_ScanThree => ret = Return(PyList(<<101, 102, 213>>))
        /\ (last.echo /\ setTo["channels"].items # <<>>) =>
               ret = Return(setTo["channels"])

\* a list of three channels, not in ascending order and with a repeat, read back
C11_Witness ==
    /\ GotChannels
    /\ last.echo
    /\ last.after = "set_channels"
    /\ setTo["channels"] = PyList(<<213, 101, 213>>)
    /\ ret = Return(PyList(<<213, 101, 213>>))

T_RoutScanNothing ==
    <<"R", "O", "U", "T", ":", "S", "C", "A", "N", " ", "(", "@", ")">>

\* C13: clear_all_channels writes the one command ROUT:SCAN (@); a channels
\* query answered with the echo of an empty scan list, (@), returns no list but
\* raises the ValueError of int('').
C13_EmptyScanListNotReadBack ==
    /\ (drv = "Agilent34970A" /\ last.op = "clear_all_channels") =>
           log = <<Written(T_RoutScanNothing)>>
    /\ (GotChannels /\ last.echo /\ setTo["channels"].items = <<>>) =>
           /\ last.reply = T_ScanEmpty
           /\ ret = Raise("ValueError")

\* the scan list was cleared, then queried
C13_Witness ==
    /\ GotChannels
    /\ last.after = "clear_all_channels"
    /\ last.echo
    /\ last.reply = T_ScanEmpty
    /\ ret = Raise("ValueError")

---------------------------------------------------------------------------
(* HP3458A: the on/off settings display, arange and azero *)

T_ARANGE ==
    <<"A", "R", "A", "N", "G", "E">>

T_ARRANGE ==
    <<"A", "R", "R", "A", "N", "G", "E">>

HPToggles == {"display", "arange", "azero"}

\* the keyword each on/off setter writes
HPToggleSetKeyword(p) ==
    CASE p = "display" -> T_DISP
      [] p = "arange" -> T_ARRANGE
      [] p = "azero" -> T_AZERO

\* the keyword each on/off getter queries
HPToggleGetKeyword(p) ==
    CASE p = "display" -> T_DISP
      [] p = "arange" -> T_ARANGE
      [] p = "azero" -> T_AZERO

\* '<KEYWORD> {}'.format(toggable_mode.value)
HPToggleCommand(p, member) ==
    SetCommand(HPToggleSetKeyword(p), Str(HPValueOf(member)))

\* self.ToggableMode(int(self.ask('<KEYWORD>?')))
HPToggleGetter(reply) ==
    LET n == IntParse(reply)
    IN  IF n.ok THEN EnumLookup("ToggableMode", HPToggableMode, n.val)
        ELSE Raise("ValueError")

\* what the setters were last given, after __init__, the on/off settings included
HPInitSetToAll ==
    DictSet(DictSet(HPInitSetTo, "display", PyEnum("ToggableMode", "off")),
            "azero", PyEnum("ToggableMode", "off"))

\* dvm.display = m, dvm.arange = m, dvm.azero = m
HPToggleSet ==
    /\ HPIdle
    /\ \E p \in HPToggles :
         \E m \in {PyEnum("ToggableMode", x) : x \in DOMAIN HPToggableMode} :
           /\ last' = [op |-> "set", prop |-> p]
           /\ log' = <<Written(HPToggleCommand(p, m))>>
           /\ inst' = InstWrite(inst, HPToggleCommand(p, m))
           /\ setTo' = DictSet(setTo, p, m)
    /\ ret' = Return(NoObject)
    /\ UNCHANGED <<drv, device, pc, errVars, objVars>>

\* dvm.display, dvm.arange, dvm.azero
HPToggleGet ==
    /\ HPIdle
    /\ \E p \in HPToggles :
         LET query == QueryCommand(HPToggleGetKeyword(p))
         IN  \E reply \in Replies(inst, query) :
               /\ last' = [op |-> "get", prop |-> p, reply |-> reply,
                           echo |-> IsEcho(inst, query, reply),
                           values |-> {Str(v) : v \in EnumValues(HPToggableMode)}]
               /\ log' = <<Asked(query)>>
               /\ ret' = HPToggleGetter(reply)
    /\ UNCHANGED <<drv, device, pc, errVars, instVars, objVars>>

\* the state after HP3458A.__init__
InitHPToggles ==
    /\ drv = "HP3458A"
    /\ device = "3458A"
    /\ pc = "idle"
    /\ i = 0
    /\ error_dict = EmptyDict
    /\ log = WrittenAll(HPInitCommands)
    /\ last = [op |-> "__init__"]
    /\ ret = Return(NoObject)
    /\ popped = 0
    /\ seen = {}
    /\ zeroRecv = FALSE
    /\ inst = InstWriteAll(EmptyDict, HPInitCommands)
    /\ setTo = HPInitSetToAll
    /\ heap = EmptyDict
    /\ cfg = NoObject
    /\ cfg0 = NoObject

NextHPToggles == HPToggleSet \/ HPToggleGet

SpecHPToggles == InitHPToggles /\ [][NextHPToggles]_vars

---------------------------------------------------------------------------
(* Claims about the on/off settings of HP3458A *)

\* an on/off setting that was set is read, and answered from the instrument's
\* store under the keyword queried
ToggleReadBack ==
    /\ drv = "HP3458A"
    /\ last.op = "get"
    /\ last.prop \in HPToggles
    /\ last.prop \in DOMAIN setTo
    /\ last.reply = InstEcho(inst, QueryCommand(HPToggleGetKeyword(last.prop)))

\* C12: the keyword an on/off setter writes is the keyword its getter queries,
\* and a setting that was set reads back as the member that was set: for
\* arange as for display and azero.
C12_ArangeReadsBack ==
    ToggleReadBack =>
        /\ HPToggleSetKeyword(last.prop) = HPToggleGetKeyword(last.prop)
        /\ ret = Return(setTo[last.prop])

\* C12 for display and azero alone
C12_DisplayAzeroReadBack ==
    (ToggleReadBack /\ last.prop # "arange") =>
        /\ HPToggleSetKeyword(last.prop) = HPToggleGetKeyword(last.prop)
        /\ ret = Return(setTo[last.prop])

===========================================================================
